---- MODULE Spec2Model ----
(***************************************************************************)
(* Model of tools/twiml_errors.py: one HTTP GET, response.json(), the dict *)
(* comprehension {str(e["code"]): e["message"] ...}, open(path, "w") and   *)
(* f.write(json.dumps(codes)).                                             *)
(*                                                                         *)
(* Text (Python str, file content) is a sequence of one-character strings. *)
(* A JSON scalar is a record [t, n, s]; a JSON object that is an element   *)
(* of the source array is [t |-> "dict", d |-> f], f a function whose      *)
(* DOMAIN is the set of fields the object has.                             *)
(***************************************************************************)
EXTENDS Integers, Sequences, FiniteSets

VARIABLES
    pc,          \* position of the script: "start", "json", "build", "write", "exited"
    response,    \* line 6: the Response object, [got, status, body]
    idx,         \* line 7: number of elements the comprehension has consumed
    codes,       \* line 7: the dict under construction, in insertion order
    file,        \* ../handlers/twiml/errors.json: [exists, data]
    err,         \* the uncaught exception that ended the run, or "none"
    exit,        \* the process's exit code, -1 while it runs
    fileAtStart, \* history: the file as the run found it
    gets,        \* history: calls of requests.get in this run
    opens,       \* history: calls of open in this run
    lastOk,      \* history: the body the previous run fetched, if that run exited 0
    same         \* history: this run fetched the body the previous, successful run fetched

vars == <<pc, response, idx, codes, file, err, exit, fileAtStart, gets, opens, lastOk, same>>

\* ---------------------------------------------------------------- bounds

\* longest source array of the repeated-run specification Spec
MaxLen == 2
\* longest source array of the single-run specification SpecOnce
MaxArr == 3
\* most characters a failing f.write leaves in the file
MaxPartial == 1

\* ---------------------------------------------------------------- values

JInt(n) == [t |-> "int", n |-> n, s |-> <<>>]
JStr(s) == [t |-> "str", n |-> 0, s |-> s]
JNull == [t |-> "null", n |-> 0, s |-> <<>>]
JDict(d) == [t |-> "dict", d |-> d]

Digits == <<"0", "1", "2", "3", "4", "5", "6", "7", "8", "9">>

RECURSIVE NatToStr(_)
NatToStr(n) ==
    IF n < 10 THEN <<Digits[n + 1]>>
    ELSE NatToStr(n \div 10) \o <<Digits[(n % 10) + 1]>>

IntToStr(n) == IF n < 0 THEN <<"-">> \o NatToStr(-n) ELSE NatToStr(n)

\* str(x) with the identity in its place: the key keeps the code's type
strRaw(v) == v

\* Python's str(x) on a decoded JSON scalar; the result is a Python str
str(v) ==
    CASE v.t = "str" -> JStr(v.s)
      [] v.t = "int" -> JStr(IntToStr(v.n))
      [] v.t = "null" -> JStr(<<"N", "o", "n", "e">>)

\* e.get(k): a missing key yields None instead of raising
SubscriptGet(e, k) ==
    IF e.t # "dict" THEN [exc |-> "TypeError", v |-> JNull]
    ELSE IF k \in DOMAIN e.d THEN [exc |-> "none", v |-> e.d[k]]
    ELSE [exc |-> "none", v |-> JNull]

\* e[k]: KeyError when the dict has no key k, TypeError when e is a str
Subscript(e, k) ==
    IF e.t # "dict" THEN [exc |-> "TypeError", v |-> JNull]
    ELSE IF k \in DOMAIN e.d THEN [exc |-> "none", v |-> e.d[k]]
    ELSE [exc |-> "KeyError", v |-> JNull]

\* ---------------------------------------------------------------- dict

Keys(d) == {d[i].key : i \in 1..Len(d)}

IndexOf(d, k) == CHOOSE i \in 1..Len(d) : d[i].key = k

RemoveAt(d, i) == SubSeq(d, 1, i - 1) \o SubSeq(d, i + 1, Len(d))

\* d[k] = v that moves an existing key to the end
SetItemMove(d, k, v) ==
    IF k \in Keys(d)
    THEN Append(RemoveAt(d, IndexOf(d, k)), [key |-> k, val |-> v])
    ELSE Append(d, [key |-> k, val |-> v])

\* d.setdefault(k, v): the first value of a key is kept
SetItemFirst(d, k, v) ==
    IF k \in Keys(d) THEN d ELSE Append(d, [key |-> k, val |-> v])

\* d[k] = v on an insertion-ordered dict: a new key is appended, an
\* existing key keeps its position and takes the new value
SetItem(d, k, v) ==
    IF k \in Keys(d)
    THEN [d EXCEPT ![IndexOf(d, k)].val = v]
    ELSE Append(d, [key |-> k, val |-> v])

\* ---------------------------------------------------------------- json.dumps

\* a character written as it is
EscapeNone(c) == <<c>>

EscapeChar(c) ==
    IF c = "\"" THEN <<"\\", "\"">>
    ELSE IF c = "\\" THEN <<"\\", "\\">>
    ELSE <<c>>

RECURSIVE Escape(_)
Escape(s) == IF s = <<>> THEN <<>> ELSE EscapeChar(Head(s)) \o Escape(Tail(s))

Quote(s) == <<"\"">> \o Escape(s) \o <<"\"">>

NullText == <<"n", "u", "l", "l">>

\* a dict key: a str as it is, an int or None coerced to its JSON text
DumpKey(k) ==
    CASE k.t = "str" -> Quote(k.s)
      [] k.t = "int" -> Quote(IntToStr(k.n))
      [] k.t = "null" -> Quote(NullText)

DumpVal(v) ==
    CASE v.t = "str" -> Quote(v.s)
      [] v.t = "int" -> IntToStr(v.n)
      [] v.t = "null" -> NullText

RECURSIVE Members(_)
Members(d) ==
    IF d = <<>> THEN <<>>
    ELSE DumpKey(Head(d).key) \o <<":", " ">> \o DumpVal(Head(d).val)
         \o (IF Tail(d) = <<>> THEN <<>> ELSE <<",", " ">> \o Members(Tail(d)))

\* json.dumps(codes): default separators, keys in the dict's order
dumps(d) == <<"{">> \o Members(d) \o <<"}">>

\* ---------------------------------------------------------------- inputs

Codes == {JInt(1), JStr(<<"1">>), JInt(12)}

Msgs == {JStr(<<"a">>), JStr(<<"\"", "\\">>)}

WellFormed == {JDict([code |-> c, message |-> m]) : c \in Codes, m \in Msgs}

Malformed == {JDict([message |-> JStr(<<"a">>)]), JDict([code |-> JInt(1)])}

Elements == WellFormed \cup Malformed

SeqsUpTo(S, n) == UNION {[1..k -> S] : k \in 0..n}

\* what the URL can answer: a body that is no JSON, a JSON number, a JSON
\* object (iterating it yields its keys), or an array of objects
Bodies(n) ==
    {[kind |-> "text", items |-> <<>>],
     [kind |-> "number", items |-> <<>>],
     [kind |-> "object", items |-> <<>>],
     [kind |-> "object", items |-> <<JStr(<<"e">>)>>]}
    \cup {[kind |-> "array", items |-> s] : s \in SeqsUpTo(Elements, n)}

Statuses == {200, 404}

NoBody == [kind |-> "text", items |-> <<>>]

NoResponse == [got |-> FALSE, status |-> 0, body |-> NoBody]

NoLast == [ok |-> FALSE, body |-> NoBody]

NoFile == [exists |-> FALSE, data |-> <<>>]

InitFiles ==
    {NoFile,
     [exists |-> TRUE, data |-> <<"x">>],
     [exists |-> TRUE, data |-> dumps(<<[key |-> JStr(<<"9">>), val |-> JStr(<<"a">>)]>>)]}

Min(a, b) == IF a < b THEN a ELSE b

\* ---------------------------------------------------------------- the script

Init ==
    /\ pc = "start"
    /\ response = NoResponse
    /\ idx = 0
    /\ codes = <<>>
    /\ file \in InitFiles
    /\ fileAtStart = file
    /\ err = "none"
    /\ exit = -1
    /\ gets = 0
    /\ opens = 0
    /\ lastOk = NoLast
    /\ same = FALSE

\* an exception nothing catches: the interpreter prints it and exits 1
Raise(e) == pc' = "exited" /\ err' = e /\ exit' = 1

\* open(path, "a"): an existing file keeps its content
OpenAppend(f) == [exists |-> TRUE, data |-> f.data]

\* open(path, "w"): the file is created, or truncated to nothing
OpenW(f) == [exists |-> TRUE, data |-> <<>>]

\* the iterator stops one element short
ExhaustedEarly(i, items) == i >= Len(items) - 1

\* the comprehension's for has consumed every element
Exhausted(i, items) == i = Len(items)

\* the output file opened before the request is made
FetchOpenFirst(n) ==
    /\ pc = "start"
    /\ gets' = gets + 1
    /\ lastOk' = NoLast
    /\ file' = OpenW(file)
    /\ \/ /\ Raise("ConnectionError")
          /\ UNCHANGED <<response, same>>
       \/ \E st \in Statuses, b \in Bodies(n) :
            /\ response' = [got |-> TRUE, status |-> st, body |-> b]
            /\ same' = (lastOk.ok /\ lastOk.body = b)
            /\ pc' = "json"
            /\ UNCHANGED <<err, exit>>
    /\ UNCHANGED <<idx, codes, fileAtStart, opens>>

\* line 6: requests.get raises when no response arrives; any response,
\* whatever its status, is returned
Fetch(n) ==
    /\ pc = "start"
    /\ gets' = gets + 1
    /\ lastOk' = NoLast
    /\ \/ /\ Raise("ConnectionError")
          /\ UNCHANGED <<response, same>>
       \/ \E st \in Statuses, b \in Bodies(n) :
            /\ response' = [got |-> TRUE, status |-> st, body |-> b]
            /\ same' = (lastOk.ok /\ lastOk.body = b)
            /\ pc' = "json"
            /\ UNCHANGED <<err, exit>>
    /\ UNCHANGED <<idx, codes, file, fileAtStart, opens>>

\* line 7: response.json(), then iter() of what it decoded
Parse ==
    /\ pc = "json"
    /\ IF response.body.kind = "text" THEN Raise("JSONDecodeError")
       ELSE IF response.body.kind = "number" THEN Raise("TypeError")
       ELSE pc' = "build" /\ UNCHANGED <<err, exit>>
    /\ UNCHANGED <<response, idx, codes, file, fileAtStart, gets, opens, lastOk, same>>

\* line 7: one turn of the comprehension, the key before the value
BuildStep ==
    /\ pc = "build"
    /\ idx < Len(response.body.items)
    /\ LET e == response.body.items[idx + 1]
           c == Subscript(e, "code")
           m == Subscript(e, "message")
       IN  IF c.exc # "none" THEN Raise(c.exc) /\ UNCHANGED <<idx, codes>>
           ELSE IF m.exc # "none" THEN Raise(m.exc) /\ UNCHANGED <<idx, codes>>
           ELSE /\ codes' = SetItem(codes, str(c.v), m.v)
                /\ idx' = idx + 1
                /\ UNCHANGED <<pc, err, exit>>
    /\ UNCHANGED <<response, file, fileAtStart, gets, opens, lastOk, same>>

\* line 8: open(..., "w") once codes is bound
Open ==
    /\ pc = "build"
    /\ Exhausted(idx, response.body.items)
    /\ opens' = opens + 1
    /\ \/ /\ file' = OpenW(file)
          /\ pc' = "write"
          /\ UNCHANGED <<err, exit>>
       \/ /\ Raise("OSError")
          /\ UNCHANGED file
    /\ UNCHANGED <<response, idx, codes, fileAtStart, gets, lastOk, same>>

\* line 9: f.write(json.dumps(codes)), the with block closes f and the
\* script ends; a failing write leaves a prefix of the text
Write ==
    /\ pc = "write"
    /\ LET text == dumps(codes)
       IN  \/ /\ file' = [file EXCEPT !.data = @ \o text]
              /\ pc' = "exited"
              /\ exit' = 0
              /\ UNCHANGED err
           \/ \E n \in 0..Min(MaxPartial, Len(text) - 1) :
                /\ file' = [file EXCEPT !.data = @ \o SubSeq(text, 1, n)]
                /\ Raise("OSError")
    /\ UNCHANGED <<response, idx, codes, fileAtStart, gets, opens, lastOk, same>>

\* the script is run again: a new process, the file as the last run left it
Restart ==
    /\ pc = "exited"
    /\ pc' = "start"
    /\ response' = NoResponse
    /\ idx' = 0
    /\ codes' = <<>>
    /\ err' = "none"
    /\ exit' = -1
    /\ fileAtStart' = file
    /\ gets' = 0
    /\ opens' = 0
    /\ lastOk' = IF exit = 0 THEN [ok |-> TRUE, body |-> response.body] ELSE NoLast
    /\ same' = FALSE
    /\ UNCHANGED file

Next ==
    \/ Fetch(MaxLen)
    \/ Parse
    \/ BuildStep
    \/ Open
    \/ Write
    \/ Restart

Spec == Init /\ [][Next]_vars

NextOnce ==
    \/ Fetch(MaxArr)
    \/ Parse
    \/ BuildStep
    \/ Open
    \/ Write

\* one run of the script, on longer arrays
SpecOnce == Init /\ [][NextOnce]_vars

\* ---------------------------------------------------------------- the reader of the file

\* A JSON decoder, for the round trip: what a consumer of errors.json gets.

IsDigit(c) == \E k \in 1..10 : Digits[k] = c

DigitVal(c) == (CHOOSE k \in 1..10 : Digits[k] = c) - 1

RECURSIVE SkipWs(_, _)
SkipWs(t, i) == IF i <= Len(t) /\ t[i] = " " THEN SkipWs(t, i + 1) ELSE i

\* the string whose opening quote precedes position i; of the escapes only
\* \" \\ and \/ are decoded, any other is refused
RECURSIVE ScanString(_, _, _)
ScanString(t, i, acc) ==
    IF i > Len(t) THEN [ok |-> FALSE, pos |-> i, s |-> acc]
    ELSE IF t[i] = "\"" THEN [ok |-> TRUE, pos |-> i + 1, s |-> acc]
    ELSE IF t[i] = "\\"
         THEN IF i + 1 <= Len(t) /\ t[i + 1] \in {"\"", "\\", "/"}
              THEN ScanString(t, i + 2, Append(acc, t[i + 1]))
              ELSE [ok |-> FALSE, pos |-> i, s |-> acc]
    ELSE ScanString(t, i + 1, Append(acc, t[i]))

RECURSIVE ScanDigits(_, _, _)
ScanDigits(t, i, acc) ==
    IF i <= Len(t) /\ IsDigit(t[i])
    THEN ScanDigits(t, i + 1, acc * 10 + DigitVal(t[i]))
    ELSE [pos |-> i, n |-> acc]

ParseValue(t, i) ==
    IF i > Len(t) THEN [ok |-> FALSE, pos |-> i, v |-> JNull]
    ELSE IF t[i] = "\""
         THEN LET r == ScanString(t, i + 1, <<>>)
              IN  [ok |-> r.ok, pos |-> r.pos, v |-> JStr(r.s)]
    ELSE IF IsDigit(t[i])
         THEN LET r == ScanDigits(t, i, 0)
              IN  [ok |-> TRUE, pos |-> r.pos, v |-> JInt(r.n)]
    ELSE IF t[i] = "-" /\ i + 1 <= Len(t) /\ IsDigit(t[i + 1])
         THEN LET r == ScanDigits(t, i + 1, 0)
              IN  [ok |-> TRUE, pos |-> r.pos, v |-> JInt(-r.n)]
    ELSE IF i + 3 <= Len(t) /\ SubSeq(t, i, i + 3) = NullText
         THEN [ok |-> TRUE, pos |-> i + 4, v |-> JNull]
    ELSE [ok |-> FALSE, pos |-> i, v |-> JNull]

\* the members of an object from position i on, into d; a repeated name
\* takes the later value
RECURSIVE ParseMembers(_, _, _)
ParseMembers(t, i, d) ==
    LET j == SkipWs(t, i)
        key == ScanString(t, j + 1, <<>>)
        k == SkipWs(t, key.pos)
        val == ParseValue(t, SkipWs(t, k + 1))
        m == SkipWs(t, val.pos)
        d2 == IF JStr(key.s) \in Keys(d)
              THEN [d EXCEPT ![IndexOf(d, JStr(key.s))].val = val.v]
              ELSE Append(d, [key |-> JStr(key.s), val |-> val.v])
        bad == [ok |-> FALSE, d |-> <<>>]
    IN  IF j > Len(t) \/ t[j] # "\"" THEN bad
        ELSE IF ~key.ok THEN bad
        ELSE IF k > Len(t) \/ t[k] # ":" THEN bad
        ELSE IF ~val.ok THEN bad
        ELSE IF m <= Len(t) /\ t[m] = "," THEN ParseMembers(t, m + 1, d2)
        ELSE IF m <= Len(t) /\ t[m] = "}"
             THEN IF SkipWs(t, m + 1) > Len(t) THEN [ok |-> TRUE, d |-> d2] ELSE bad
        ELSE bad

\* json.loads on a text holding one object of scalar members (the documents
\* json.dumps(codes) produces); ok is FALSE for any other text
loads(t) ==
    LET i == SkipWs(t, 1)
        j == SkipWs(t, i + 1)
    IN  IF i > Len(t) \/ t[i] # "{" THEN [ok |-> FALSE, d |-> <<>>]
        ELSE IF j <= Len(t) /\ t[j] = "}"
             THEN [ok |-> SkipWs(t, j + 1) > Len(t), d |-> <<>>]
        ELSE ParseMembers(t, i + 1, <<>>)

\* ---------------------------------------------------------------- vocabulary of the claims

Items == response.body.items

CodeAt(i) == Items[i].d.code

MsgAt(i) == Items[i].d.message

\* the string form of a code: a string as it is, a number in decimal
Text(v) == IF v.t = "str" THEN v.s ELSE IntToStr(v.n)

Is2xx(st) == st >= 200 /\ st < 300

\* codes is bound: the comprehension has consumed the whole array
Built == pc = "write" \/ (pc = "exited" /\ exit = 0)

Done == pc = "exited" /\ exit = 0

Failed == pc = "exited" /\ exit # 0

SrcCodes == {CodeAt(i) : i \in 1..Len(Items)}

SrcTexts == {Text(CodeAt(i)) : i \in 1..Len(Items)}

EntriesFor(k) == {p \in 1..Len(codes) : codes[p].key = JStr(k)}

LastWithCode(c) ==
    CHOOSE i \in 1..Len(Items) :
        CodeAt(i) = c /\ \A j \in (i + 1)..Len(Items) : CodeAt(j) # c

LastWithText(k) ==
    CHOOSE i \in 1..Len(Items) :
        Text(CodeAt(i)) = k /\ \A j \in (i + 1)..Len(Items) : Text(CodeAt(j)) # k

FirstWithText(k) ==
    CHOOSE i \in 1..Len(Items) :
        Text(CodeAt(i)) = k /\ \A j \in 1..(i - 1) : Text(CodeAt(j)) # k

AsMap(d) == {<<d[p].key, d[p].val>> : p \in 1..Len(d)}

HasFields(e) == {"code", "message"} \subseteq DOMAIN e.d

\* the source array has an element without code or without message
HasMalformed ==
    /\ response.got
    /\ response.body.kind = "array"
    /\ \E i \in 1..Len(Items) : ~HasFields(Items[i])

FirstMalformed ==
    CHOOSE i \in 1..Len(Items) :
        ~HasFields(Items[i]) /\ \A j \in 1..(i - 1) : HasFields(Items[j])

\* section 7 of the spec: what counts as which failure
NetworkErrors == {"ConnectionError", "HTTPError"}

SchemaErrors == {"KeyError", "TypeError"}

\* ---------------------------------------------------------------- claims

\* C1 as stated: the mapping has exactly one entry per distinct source code
\* (codes of different type being distinct), the entry of a code holds the
\* message of the last record carrying that code, and every key comes from
\* a source record.
C1_AsStated ==
    Built =>
        /\ Len(codes) = Cardinality(SrcCodes)
        /\ \A c \in SrcCodes :
             /\ Cardinality(EntriesFor(Text(c))) = 1
             /\ \A p \in EntriesFor(Text(c)) : codes[p].val = MsgAt(LastWithCode(c))
        /\ \A p \in 1..Len(codes) : \E c \in SrcCodes : codes[p].key = JStr(Text(c))

\* C1 amended: the mapping has exactly one entry per distinct string form of
\* the source codes, the entry holds the message of the last record whose
\* code has that string form, and every key is the string form of the code
\* of some source record.
C1_OnePerStringForm ==
    Built =>
        /\ Len(codes) = Cardinality(SrcTexts)
        /\ \A k \in SrcTexts :
             /\ Cardinality(EntriesFor(k)) = 1
             /\ \A p \in EntriesFor(k) : codes[p].val = MsgAt(LastWithText(k))
        /\ \A p \in 1..Len(codes) : \E k \in SrcTexts : codes[p].key = JStr(k)

\* a finished build over an array in which a code occurs twice with two
\* messages, the entry holding the later one
C1_Witness ==
    /\ Built
    /\ \E i, j \in 1..Len(Items) :
         /\ i < j
         /\ CodeAt(i) = CodeAt(j)
         /\ MsgAt(i) # MsgAt(j)
         /\ j = LastWithText(Text(CodeAt(j)))
         /\ \E p \in 1..Len(codes) :
              codes[p].key = JStr(Text(CodeAt(j))) /\ codes[p].val = MsgAt(j)

\* C2 as stated: once the GET has returned a non-2xx response the body is
\* never parsed, no mapping is built, the file is never opened or written,
\* and the run ends with a network error.
C2_AsStated ==
    (response.got /\ ~Is2xx(response.status)) =>
        /\ pc \in {"json", "exited"}
        /\ idx = 0
        /\ codes = <<>>
        /\ opens = 0
        /\ file = fileAtStart
        /\ pc = "exited" => (exit # 0 /\ err \in NetworkErrors)

\* C3 as stated: the run exits 0 exactly when the fetch (a response, with a
\* 2xx status), the parse, the build and the write all succeeded; a failure
\* is never suppressed; a run whose fetch failed executes no later step and
\* exits non-zero.
C3_AsStated ==
    /\ Done <=>
         /\ pc = "exited"
         /\ response.got /\ Is2xx(response.status)
         /\ response.body.kind \in {"array", "object"}
         /\ idx = Len(Items)
         /\ err = "none"
         /\ file = [exists |-> TRUE, data |-> dumps(codes)]
    /\ pc = "exited" => (exit = 0 <=> err = "none")
    /\ (gets = 1 /\ ~(response.got /\ Is2xx(response.status))) =>
         /\ pc \in {"json", "exited"}
         /\ opens = 0
         /\ pc = "exited" => exit # 0

\* C3 on the runs whose response has a 2xx status (or that got none): the
\* part of the claim that does not rest on the status
C3_Given2xx ==
    (response.got => Is2xx(response.status)) =>
        /\ Done <=>
             /\ pc = "exited"
             /\ response.got
             /\ response.body.kind \in {"array", "object"}
             /\ idx = Len(Items)
             /\ err = "none"
             /\ file = [exists |-> TRUE, data |-> dumps(codes)]
        /\ pc = "exited" => (exit = 0 <=> err = "none")
        /\ (pc = "exited" /\ ~response.got) => (err \in NetworkErrors /\ opens = 0)

\* C4: when an element of the source array lacks code or message, the
\* elements before the first such one are consumed and no more, the file is
\* never opened and stays as the run found it, the run cannot stop before it
\* has exited, and it exits non-zero with a schema error.
C4_MalformedIsFatal ==
    HasMalformed =>
        /\ pc \in {"json", "build", "exited"}
        /\ idx < FirstMalformed
        /\ opens = 0
        /\ file = fileAtStart
        /\ pc # "exited" => ENABLED (Parse \/ BuildStep)
        /\ pc = "exited" =>
             /\ exit = 1
             /\ err \in SchemaErrors
             /\ idx = FirstMalformed - 1

\* a run that ended on a malformed last element after consuming a
\* well-formed one
C4_Witness ==
    /\ HasMalformed
    /\ pc = "exited"
    /\ err = "KeyError"
    /\ FirstMalformed = Len(Items)
    /\ idx >= 1
    /\ Len(codes) >= 1

\* C5: after a successful run the file parses as JSON to a mapping with the
\* key set of the in-memory mapping and the same value under each key.
C5_RoundTrip ==
    Done =>
        /\ loads(file.data).ok
        /\ Keys(loads(file.data).d) = Keys(codes)
        /\ AsMap(loads(file.data).d) = AsMap(codes)

\* a successful run whose mapping has two entries, one with a message that
\* holds a double quote and a backslash
C5_Witness ==
    /\ Done
    /\ Len(codes) >= 2
    /\ \E p \in 1..Len(codes) : codes[p].val = JStr(<<"\"", "\\">>)
    /\ loads(file.data).d = codes

\* C6: after a successful run the file exists and holds exactly the
\* serialization of the mapping of that run, whatever it held before; a run
\* that fetched the array the previous successful run fetched leaves the
\* file as it found it.
C6_Overwrite ==
    Done =>
        /\ file = [exists |-> TRUE, data |-> dumps(codes)]
        /\ same => file = fileAtStart

\* a successful run over a file that held other, non-empty content
C6_Witness ==
    /\ Done
    /\ fileAtStart.exists
    /\ fileAtStart.data # <<>>
    /\ fileAtStart.data # file.data
    /\ Len(codes) >= 1

\* a second successful run against the same non-empty array
C6_SecondRun == Done /\ same /\ Len(codes) >= 1

C7_State ==
    /\ gets <= 1
    /\ opens <= 1
    /\ pc # "start" <=> gets = 1
    /\ pc = "write" => opens = 1
    /\ opens = 1 =>
         /\ pc \in {"write", "exited"}
         /\ response.got
         /\ idx = Len(Items)
         /\ Len(codes) = Cardinality(SrcTexts)
    /\ pc = "exited" => ((exit = 0 /\ err = "none") \/ (exit = 1 /\ err # "none"))
    /\ pc # "exited" => (exit = -1 /\ err = "none")
    /\ Done => opens = 1

Rank(p) ==
    CASE p = "start" -> 0
      [] p = "json" -> 1
      [] p = "build" -> 2
      [] p = "write" -> 3
      [] OTHER -> 4

C7_Step ==
    \/ pc = "exited" /\ pc' = "start"
    \/ /\ Rank(pc') >= Rank(pc)
       /\ pc # "exited"
       /\ pc = "start" <=> gets' = gets + 1
       /\ pc' # pc \/ idx' = idx + 1
       /\ opens' # opens => (pc = "build" /\ pc' \in {"write", "exited"})
       /\ file' # file => pc \in {"build", "write"}

\* C7: a run is the sequence fetch, parse, build, open, write, never back
\* and no step twice: one GET per run, at most one open, the open only
\* after the comprehension has consumed the whole array, and the run ends
\* either with exit code 0 and no exception or with exit code 1 and one.
C7_Linear == []C7_State /\ [][C7_Step]_vars

\* a run that went through every step on an array of two elements
C7_Witness ==
    /\ Done
    /\ gets = 1
    /\ opens = 1
    /\ Len(Items) >= 2
    /\ response.body.kind = "array"

\* C8: in the mapping, and in the written file, key k1 precedes key k2
\* exactly when the first record whose code has string form k1 precedes the
\* first record whose code has string form k2.
C8_InsertionOrder ==
    Built =>
        /\ \A p, q \in 1..Len(codes) :
             p < q <=> FirstWithText(codes[p].key.s) < FirstWithText(codes[q].key.s)
        /\ Done =>
             /\ Len(loads(file.data).d) = Len(codes)
             /\ \A p \in 1..Len(codes) : loads(file.data).d[p].key = codes[p].key

\* a record repeats the code of the first record after a record with
\* another code: the first key stays first and holds the later message
C8_Witness ==
    /\ Done
    /\ Len(Items) >= 3
    /\ Text(CodeAt(1)) # Text(CodeAt(2))
    /\ Text(CodeAt(3)) = Text(CodeAt(1))
    /\ MsgAt(3) # MsgAt(1)
    /\ Len(codes) = 2
    /\ codes[1] = [key |-> JStr(Text(CodeAt(1))), val |-> MsgAt(3)]

\* C9: before the open of line 8, and after a run that ended in a network,
\* parse or schema failure, the file is as the run found it; a failed run
\* that left the file changed ended in an OSError after its open.
C9_FileKept ==
    /\ pc \in {"start", "json", "build"} => file = fileAtStart
    /\ (Failed /\ err \in NetworkErrors \cup SchemaErrors \cup {"JSONDecodeError"})
         => (file = fileAtStart /\ opens = 0)
    /\ (Failed /\ file # fileAtStart) => (err = "OSError" /\ opens = 1)

\* a run over an existing file that failed in the parse
C9_Witness ==
    /\ Failed
    /\ err = "JSONDecodeError"
    /\ fileAtStart.exists
    /\ fileAtStart.data # <<>>
    /\ file = fileAtStart

\* a failed write that left the truncated file
C9_Truncated == Failed /\ err = "OSError" /\ file # fileAtStart

\* C10: every key is a str, the string form of a code; two records whose
\* codes differ and have one string form share one entry, which holds the
\* message of the later record with that string form; there are as many
\* entries as distinct string forms, and no more than distinct codes.
C10_StringKeys ==
    Built =>
        /\ \A p \in 1..Len(codes) : codes[p].key.t = "str"
        /\ \A i, j \in 1..Len(Items) :
             (CodeAt(i) # CodeAt(j) /\ Text(CodeAt(i)) = Text(CodeAt(j))) =>
                 \E p \in 1..Len(codes) :
                     /\ EntriesFor(Text(CodeAt(i))) = {p}
                     /\ EntriesFor(Text(CodeAt(j))) = {p}
                     /\ codes[p].val = MsgAt(LastWithText(Text(CodeAt(i))))
        /\ Cardinality(Keys(codes)) = Cardinality(SrcTexts)
        /\ Cardinality(Keys(codes)) <= Cardinality(SrcCodes)

\* the number 1 and then the string "1", with two messages: one entry, the
\* later message, fewer entries than distinct codes
C10_Witness ==
    /\ Built
    /\ Len(Items) >= 2
    /\ CodeAt(1) = JInt(1)
    /\ CodeAt(2) = JStr(<<"1">>)
    /\ MsgAt(1) # MsgAt(2)
    /\ Len(Items) = 2 => codes = <<[key |-> JStr(<<"1">>), val |-> MsgAt(2)]>>
    /\ Cardinality(Keys(codes)) < Cardinality(SrcCodes)

====
